---- MODULE Spec2Model ----
(***************************************************************************)
(* A model of charmhelpers/fetch/__init__.py: the package operations       *)
(* (apt_install, apt_update, apt_purge), source registration (add_source), *)
(* configuration-driven source setup (configure_sources), plugin loading   *)
(* (plugins) and the remote-source dispatcher (install_remote).            *)
(*                                                                         *)
(* The module is single-threaded: one call runs at a time.  pc is the      *)
(* position of the running call ("idle" before the first call, the name    *)
(* of a loop while a call is inside it, "done" once it returned or         *)
(* raised) and outcome is how the last call ended.                         *)
(*                                                                         *)
(* What handlers answer is written by its repr ("None", "True", "''",      *)
(* "'/tmp/a'"); values whose structure the code inspects (configuration    *)
(* values, command lines) are records: None, a str, a list.                *)
(***************************************************************************)
EXTENDS Naturals, Sequences, FiniteSets

VARIABLES
    pc,               \* "idle", "install_loop", "add_single", "sources_loop",
                      \* "update", "done"
    op,               \* name of the running (or last) call
    outcome,          \* how the last call ended
    source,           \* install_remote: the source argument
    loaded,           \* install_remote: the instances plugins() returned
    handlers,         \* install_remote: indices into loaded that passed the filter
    h_idx,            \* install_remote: position of the for loop in handlers
    installed_to,     \* install_remote: the local of that name
    can_handle_calls, \* install_remote: indices of loaded whose can_handle ran
    install_calls,    \* install_remote: indices of loaded whose install ran
    fetch_handlers,   \* plugins: the argument
    sys_modules,      \* plugins: the packages import_module can import
    module_attrs,     \* plugins: the <<package, classname>> pairs getattr finds
    plugin_list,      \* plugins: the local of that name
    log_calls,        \* the messages passed to log
    config,           \* configure_sources: the charm configuration read
    sources,          \* configure_sources: the local of that name
    keys,             \* configure_sources: the local of that name
    update,           \* configure_sources: the argument
    src_num,          \* configure_sources: position of the for loop
    add_source_calls, \* the <<source, key>> pairs add_source was called with
    packages,         \* apt_install, apt_purge: the argument
    options,          \* apt_install: the argument
    fatal,            \* apt_install, apt_update, apt_purge: the argument
    proc_calls,       \* the external processes spawned, in order
    file_writes       \* the files written, in order

install_remote_vars == <<source, loaded, handlers, h_idx, installed_to,
                         can_handle_calls, install_calls>>
plugins_vars == <<fetch_handlers, sys_modules, module_attrs, plugin_list>>

sources_vars == <<config, sources, keys, update, src_num, add_source_calls>>
apt_vars == <<packages, options, fatal>>
system_vars == <<proc_calls, file_writes>>

vars == <<pc, op, outcome, install_remote_vars, plugins_vars, log_calls,
          sources_vars, apt_vars, system_vars>>

----------------------------------------------------------------------------
(* Bounds *)

MaxHandlers == 3
MaxNames == 3
MaxLen == 2

----------------------------------------------------------------------------
(* Python values *)

None == "None"

\* bool(v) for the values of this model
Truthy(v) == v \notin {"None", "False", "''", "0"}

\* Structured values: None, a str, a list of values
PyNone == [type |-> "NoneType", str |-> "", items |-> <<>>]
S(x) == [type |-> "str", str |-> x, items |-> <<>>]
PyList(l) == [type |-> "list", str |-> "", items |-> l]

\* The characters of the strings whose characters the code looks at; any
\* other string of the model is a single character
Chars(x) ==
    CASE x = "" -> <<>>
      [] x = "ppa:t" -> <<"p", "p", "a", ":", "t">>
      [] x = "http:r" -> <<"h", "t", "t", "p", ":", "r">>
      [] x = "https:r" -> <<"h", "t", "t", "p", "s", ":", "r">>
      [] x = "cloud:h" -> <<"c", "l", "o", "u", "d", ":", "h">>
      [] x = "proposed" -> <<"p", "r", "o", "p", "o", "s", "e", "d">>
      [] x = "ab" -> <<"a", "b">>
      [] x = "k1" -> <<"k", "1">>
      [] x = "ppa:" -> <<"p", "p", "a", ":">>
      [] x = "http:" -> <<"h", "t", "t", "p", ":">>
      [] x = "cloud:" -> <<"c", "l", "o", "u", "d", ":">>
      [] OTHER -> <<x>>

StringsRead == {"", "ppa:t", "http:r", "https:r", "cloud:h", "proposed", "ab", "k1", "ppa:", "http:", "cloud:", "t", "r", "h", "a", "b", "k", "1"}

\* ''.join(cs)
Join(cs) == CHOOSE x \in StringsRead : Chars(x) = cs

\* not v
Not(v) ==
    \/ v.type = "NoneType"
    \/ v.type = "str" /\ v.str = ""
    \/ v.type = "list" /\ Len(v.items) = 0

\* isinstance(v, basestring)
isinstance_basestring(v) == v.type = "str"

\* len(v); len(None) raises TypeError
has_len(v) == v.type \in {"str", "list"}
len(v) == IF v.type = "str" THEN Len(Chars(v.str)) ELSE Len(v.items)

\* v[0] whatever the index
getitem_first(v, i) ==
    IF v.type = "str" THEN S(Chars(v.str)[1]) ELSE v.items[1]

\* v[i], i counted from 0
getitem(v, i) ==
    IF v.type = "str" THEN S(Chars(v.str)[i + 1]) ELSE v.items[i + 1]

\* s.startswith(prefix)
startswith(s, prefix) ==
    /\ Len(Chars(s.str)) >= Len(Chars(prefix))
    /\ SubSeq(Chars(s.str), 1, Len(Chars(prefix))) = Chars(prefix)

\* s.split(':')[-1]
split_last(s) ==
    LET cs == Chars(s.str)
        colons == {i \in 1..Len(cs) : cs[i] = ":"}
        last == IF colons = {} THEN 0
                ELSE CHOOSE i \in colons : \A j \in colons : j <= i
    IN  S(Join(SubSeq(cs, last + 1, Len(cs))))

\* Range of a sequence
Range(s) == {s[i] : i \in 1..Len(s)}

\* Sequences over S of length at most n
SeqUpTo(T, n) == UNION {[1..k -> T] : k \in 0..n}

----------------------------------------------------------------------------
(* Outcomes of a call *)

\* text.format(*args)
Format(text, args) == [text |-> text, args |-> args]
NoMessage == Format("", <<>>)

NoOutcome == [kind |-> "none", value |-> None, exc |-> None, msg |-> NoMessage]
Returned(v) == [kind |-> "return", value |-> v, exc |-> None, msg |-> NoMessage]
Raised(e, m) == [kind |-> "raise", value |-> None, exc |-> e, msg |-> m]

\* A behaviour of the model is one call of one operation of the module
Callable == pc = "idle"

----------------------------------------------------------------------------
(* Fetch handlers: what a plugin instance answers.                         *)
(* can_handle returns True or something else (a string explaining why it   *)
(* cannot, False);                                                         *)
(* install returns a path (possibly empty or None), raises UnhandledSource *)
(* or raises some other error.                                             *)

CanHandleResults == {"True", "'Wrong source type'", "False"}
InstallPaths == {"'/tmp/a'", "'/tmp/b'"}
InstallResults ==
    [kind : {"return"}, value : InstallPaths \cup {"''", None}]
    \cup [kind : {"raise"}, value : {"UnhandledSource", "IOError"}]

Handlers == [can_handle : CanHandleResults, install : InstallResults]

Sources == {"'http://example.com/foo.tgz'", "'lp:branch-name'"}

\* a truthiness test in place of the identity test
CanHandleIsTruthy(h) == Truthy(h.can_handle)

\* h.can_handle(source) is True
CanHandleIsTrue(h) == h.can_handle = "True"

\* a bare except in place of except UnhandledSource
CaughtAnything(exc) == TRUE

\* except UnhandledSource
CaughtByInstallRemote(exc) == exc = "UnhandledSource"

\* the message without the format argument
NoHandlerMessageBare(src) == Format("No handler found for source", <<>>)

\* "No handler found for source {}".format(source)
NoHandlerMessage(src) == Format("No handler found for source {}", <<src>>)

\* [h for h in plugins() if h.can_handle(source) is True], as the indices of
\* the kept instances, from position i on
RECURSIVE EligibleFrom(_, _)
EligibleFrom(plugin_instances, i) ==
    IF i > Len(plugin_instances) THEN <<>>
    ELSE (IF CanHandleIsTrue(plugin_instances[i]) THEN <<i>> ELSE <<>>)
         \o EligibleFrom(plugin_instances, i + 1)

\* install_remote up to the for loop: load the plugins, ask every one of them
\* can_handle(source) and keep those that answered True
install_remote(src, plugin_instances) ==
    /\ Callable
    /\ op' = "install_remote"
    /\ source' = src
    /\ loaded' = plugin_instances
    /\ can_handle_calls' = [i \in 1..Len(plugin_instances) |-> i]
    /\ handlers' = EligibleFrom(plugin_instances, 1)
    /\ installed_to' = None
    /\ h_idx' = 1
    /\ install_calls' = <<>>
    /\ outcome' = NoOutcome
    /\ pc' = "install_loop"
    /\ UNCHANGED <<plugins_vars, log_calls, sources_vars, apt_vars, system_vars>>

\* one iteration of the for loop
install_remote_iteration ==
    /\ pc = "install_loop"
    /\ h_idx <= Len(handlers)
    /\ LET handler == loaded[handlers[h_idx]]
           res == handler.install
       IN  /\ install_calls' = Append(install_calls, handlers[h_idx])
           /\ IF res.kind = "return"
              THEN /\ installed_to' = res.value
                   /\ h_idx' = h_idx + 1
                   /\ UNCHANGED <<pc, outcome>>
              ELSE IF CaughtByInstallRemote(res.value)
              THEN /\ h_idx' = h_idx + 1
                   /\ UNCHANGED <<installed_to, pc, outcome>>
              ELSE /\ outcome' = Raised(res.value, NoMessage)
                   /\ pc' = "done"
                   /\ UNCHANGED <<installed_to, h_idx>>
    /\ UNCHANGED <<op, source, loaded, handlers, can_handle_calls>>
    /\ UNCHANGED <<plugins_vars, log_calls, sources_vars, apt_vars, system_vars>>

\* after the loop: raise UnhandledSource or return installed_to
install_remote_finish ==
    /\ pc = "install_loop"
    /\ h_idx > Len(handlers)
    /\ outcome' = IF ~Truthy(installed_to)
                  THEN Raised("UnhandledSource", NoHandlerMessage(source))
                  ELSE Returned(installed_to)
    /\ pc' = "done"
    /\ UNCHANGED <<op, install_remote_vars, plugins_vars, log_calls,
                   sources_vars, apt_vars, system_vars>>

----------------------------------------------------------------------------
(* plugins.  A handler name is a dotted name, written as the sequence of   *)
(* its components; an argument is None or a list of handler names.         *)

FETCH_HANDLERS ==
    << <<"charmhelpers", "fetch", "archiveurl", "ArchiveUrlFetchHandler">>,
       <<"charmhelpers", "fetch", "bzrurl", "BzrUrlFetchHandler">> >>

HandlerNames == {<<"a", "foo">>, <<"b", "foo">>, <<"c", "foo">>}

\* handler_name.rsplit('.', 1)
rsplit(handler_name) ==
    [package |-> SubSeq(handler_name, 1, Len(handler_name) - 1),
     classname |-> handler_name[Len(handler_name)]]

Packages == {rsplit(n).package : n \in HandlerNames \cup Range(FETCH_HANDLERS)}
Attrs == {<<rsplit(n).package, rsplit(n).classname>> :
              n \in HandlerNames \cup Range(FETCH_HANDLERS)}

\* The environments: a class is an attribute of a module that can be imported
Environments ==
    {e \in [modules : SUBSET Packages, attrs : SUBSET Attrs] :
        \A a \in e.attrs : a[1] \in e.modules}

\* getattr(importlib.import_module(package), classname): the error it raises,
\* or "ok"
lookup(modules, attrs, package, classname) ==
    IF package \notin modules THEN "ImportError"
    ELSE IF <<package, classname>> \notin attrs THEN "AttributeError"
    ELSE "ok"

\* except ImportError alone
CaughtImportErrorOnly(exc) == exc = "ImportError"

\* except (ImportError, AttributeError)
CaughtByPlugins(exc) == exc \in {"ImportError", "AttributeError"}

\* "FetchHandler {} not found, skipping plugin".format(handler_name)
SkipMessage(handler_name) ==
    Format("FetchHandler {} not found, skipping plugin", <<handler_name>>)

\* the default list whatever the argument
AlwaysDefault(arg) == FETCH_HANDLERS

\* if not fetch_handlers: fetch_handlers = FETCH_HANDLERS
EffectiveHandlers(arg) == IF Not(arg) THEN FETCH_HANDLERS ELSE arg.items

\* the for loop of plugins from position i on, acc being
\* [plugin_list, log, raised] so far; an instance is the class it was made
\* from and the number of the constructor call that made it
RECURSIVE plugins_loop(_, _, _, _, _)
plugins_loop(names, i, modules, attrs, acc) ==
    IF i > Len(names) THEN acc
    ELSE LET parts == rsplit(names[i])
             found == lookup(modules, attrs, parts.package, parts.classname)
         IN  IF found = "ok"
             THEN plugins_loop(names, i + 1, modules, attrs,
                      [acc EXCEPT !.plugin_list =
                          Append(@, [class |-> names[i], id |-> Len(@) + 1])])
             ELSE IF CaughtByPlugins(found)
             THEN plugins_loop(names, i + 1, modules, attrs,
                      [acc EXCEPT !.log = Append(@, SkipMessage(names[i]))])
             ELSE [acc EXCEPT !.raised = found]

plugins(arg, modules, attrs) ==
    /\ Callable
    /\ op' = "plugins"
    /\ fetch_handlers' = arg
    /\ sys_modules' = modules
    /\ module_attrs' = attrs
    /\ LET res == plugins_loop(EffectiveHandlers(arg), 1, modules, attrs,
                      [plugin_list |-> <<>>, log |-> <<>>, raised |-> None])
       IN  /\ plugin_list' = res.plugin_list
           /\ log_calls' = res.log
           /\ outcome' = IF res.raised # None THEN Raised(res.raised, NoMessage)
                         ELSE Returned("plugin_list")
    /\ pc' = "done"
    /\ UNCHANGED <<install_remote_vars, sources_vars, apt_vars, system_vars>>

----------------------------------------------------------------------------
(* External processes and what a function body does to the system.         *)

ExitStatuses == {0, 1}

\* subprocess.call(cmd): the exit status is returned, and dropped by the caller
call(status) == None

\* subprocess.call in place of subprocess.check_call
check_call_never_raising(status) == None

\* subprocess.check_call(cmd): a non-zero exit status raises CalledProcessError
check_call(status) == IF status # 0 THEN "CalledProcessError" ELSE None

\* a spawned process: its command line, whether it ran under check_call, and
\* the exit status the system answered
Process(cmd, checked, status) ==
    [cmd |-> cmd, checked |-> checked, status |-> status]

\* what running a function body did: the processes it spawned, the files it
\* wrote, the messages it logged and the exception it raised (None: it
\* returned)
Effect(procs, writes, logs, raised) ==
    [procs |-> procs, writes |-> writes, logs |-> logs, raised |-> raised]

\* a file write records how many processes had been spawned before it; the
\* writes of a body that runs after n processes are n later
Later(writes, n) ==
    [i \in 1..Len(writes) |-> [writes[i] EXCEPT !.after = @ + n]]

\* the effect of running g after f: g runs only if f did not raise
Then(f, g) ==
    IF f.raised # None THEN f
    ELSE Effect(f.procs \o g.procs,
                f.writes \o Later(g.writes, Len(f.procs)),
                f.logs \o g.logs, g.raised)

NoEffect == Effect(<<>>, <<>>, <<>>, None)

\* if fatal: subprocess.check_call(cmd) else: subprocess.call(cmd)
run(cmd, is_fatal, status) ==
    Effect(<<Process(cmd, is_fatal, status)>>, <<>>, <<>>,
           IF is_fatal THEN check_call(status) ELSE call(status))

----------------------------------------------------------------------------
(* Package operations *)

PackageNames == {"vim", "emacs"}
PackageArguments ==
    {S(n) : n \in PackageNames}
    \cup {PyList(<<>>), PyList(<<S("vim")>>), PyList(<<S("vim"), S("emacs")>>)}
OptionArguments == {PyNone, PyList(<<S("--no-install-recommends")>>)}

\* cmd.append(packages) for a string, cmd.extend(packages) otherwise
with_packages(cmd, pkgs) ==
    IF isinstance_basestring(pkgs) THEN Append(cmd, pkgs) ELSE cmd \o pkgs.items

apt_install_body(pkgs, opts, is_fatal, status) ==
    LET opts_ == IF Not(opts) THEN PyList(<<>>) ELSE opts
        cmd == with_packages(
                   <<S("apt-get"), S("-y")>> \o opts_.items \o <<S("install")>>,
                   pkgs)
    IN  Then(Effect(<<>>, <<>>,
                    <<Format("Installing {} with options: {}", <<pkgs, opts_>>)>>,
                    None),
             run(cmd, is_fatal, status))

apt_update_body(is_fatal, status) ==
    run(<<S("apt-get"), S("update")>>, is_fatal, status)

apt_purge_body(pkgs, is_fatal, status) ==
    LET cmd == with_packages(<<S("apt-get"), S("-y"), S("purge")>>, pkgs)
    IN  Then(Effect(<<>>, <<>>, <<Format("Purging {}", <<pkgs>>)>>, None),
             run(cmd, is_fatal, status))

\* The apt cache: the packages it knows and those of them with a current_ver
CacheStates ==
    {c \in [known : SUBSET {"ubuntu-cloud-keyring"},
            installed : SUBSET {"ubuntu-cloud-keyring"}] :
        c.installed \subseteq c.known}

\* filter_installed_packages: [_pkgs, log] from position i of names on
RECURSIVE filter_from(_, _, _)
filter_from(names, i, cache) ==
    IF i > Len(names) THEN [pkgs |-> <<>>, logs |-> <<>>]
    ELSE LET rest == filter_from(names, i + 1, cache)
             name == names[i]
         IN  IF name.str \notin cache.known
             THEN [pkgs |-> <<name>> \o rest.pkgs,
                   logs |-> <<Format(
                       "Package {} has no installation candidate.",
                       <<name>>)>> \o rest.logs]
             ELSE IF name.str \in cache.installed THEN rest
             ELSE [pkgs |-> <<name>> \o rest.pkgs, logs |-> rest.logs]

filter_installed_packages(names, cache) == filter_from(names, 1, cache)

\* what a call starts from: every argument and local at its initial value
Entered(name) ==
    /\ Callable
    /\ op' = name
    /\ UNCHANGED <<install_remote_vars, plugins_vars>>

\* the call ends with the effect e
Finished(e) ==
    /\ proc_calls' = proc_calls \o e.procs
    /\ file_writes' = file_writes \o Later(e.writes, Len(proc_calls))
    /\ log_calls' = log_calls \o e.logs
    /\ outcome' = IF e.raised # None THEN Raised(e.raised, NoMessage)
                  ELSE Returned(None)
    /\ pc' = "done"

apt_install(pkgs, opts, is_fatal, status) ==
    /\ Entered("apt_install")
    /\ packages' = pkgs
    /\ options' = opts
    /\ fatal' = is_fatal
    /\ Finished(apt_install_body(pkgs, opts, is_fatal, status))
    /\ UNCHANGED sources_vars

apt_update(is_fatal, status) ==
    /\ Entered("apt_update")
    /\ fatal' = is_fatal
    /\ Finished(apt_update_body(is_fatal, status))
    /\ UNCHANGED <<packages, options, sources_vars>>

apt_purge(pkgs, is_fatal, status) ==
    /\ Entered("apt_purge")
    /\ packages' = pkgs
    /\ fatal' = is_fatal
    /\ Finished(apt_purge_body(pkgs, is_fatal, status))
    /\ UNCHANGED <<options, sources_vars>>

----------------------------------------------------------------------------
(* Source registration *)

CLOUD_ARCHIVE ==
    "# Ubuntu Cloud Archive\ndeb http://ubuntu-cloud.archive.canonical.com/ubuntu {} main\n"
PROPOSED_POCKET ==
    "# Proposed\ndeb http://archive.ubuntu.com/ubuntu {}-proposed main universe multiverse restricted\n"

SourceStrings == {"ppa:t", "http:r", "https:r", "cloud:h", "proposed", "ab"}
KeyStrings == {"k1"}

\* what the system answers during one add_source: the exit status of each
\* tool, the apt cache and lsb_release()['DISTRIB_CODENAME']
Systems ==
    [repo_status : ExitStatuses, apt_status : ExitStatuses,
     key_status : ExitStatuses, cache : CacheStates, codename : {"precise"}]

\* with open(path, 'w') as apt: apt.write(content)
Write(path, content) ==
    Effect(<<>>, <<[path |-> path, content |-> content, after |-> 0]>>,
           <<>>, None)

\* subprocess.check_call(cmd)
checked(cmd, status) ==
    Effect(<<Process(cmd, TRUE, status)>>, <<>>, <<>>, check_call(status))

\* the if / elif chain of add_source
add_source_branch(src, sys) ==
    IF startswith(src, "ppa:") \/ startswith(src, "http:")
    THEN checked(<<S("add-apt-repository"), S("--yes"), src>>, sys.repo_status)
    ELSE IF startswith(src, "cloud:")
    THEN LET needed == filter_installed_packages(
                           <<S("ubuntu-cloud-keyring")>>, sys.cache)
         IN  Then(Then(Effect(<<>>, <<>>, needed.logs, None),
                       apt_install_body(PyList(needed.pkgs), PyNone, TRUE,
                                        sys.apt_status)),
                  Write("/etc/apt/sources.list.d/cloud-archive.list",
                        Format(CLOUD_ARCHIVE, <<split_last(src)>>)))
    ELSE IF src = S("proposed")
    THEN Write("/etc/apt/sources.list.d/proposed.list",
               Format(PROPOSED_POCKET, <<S(sys.codename)>>))
    ELSE NoEffect

\* if key: subprocess.check_call(['apt-key', 'import', key])
add_source_key(key, sys) ==
    IF ~Not(key)
    THEN checked(<<S("apt-key"), S("import"), key>>, sys.key_status)
    ELSE NoEffect

\* the key imported before the branch runs
add_source_body_key_first(src, key, sys) ==
    Then(add_source_key(key, sys), add_source_branch(src, sys))

add_source_body(src, key, sys) ==
    Then(add_source_branch(src, sys), add_source_key(key, sys))

add_source(src, key, sys) ==
    /\ Entered("add_source")
    /\ add_source_calls' = <<[source |-> src, key |-> key]>>
    /\ Finished(add_source_body(src, key, sys))
    /\ UNCHANGED <<config, sources, keys, update, src_num, apt_vars>>

----------------------------------------------------------------------------
(* Configuration-driven source setup *)

\* A configuration value: unset (config returns None), or YAML text, which
\* is null, a plain scalar or a flow sequence of nulls and scalars
YamlAbsent == [kind |-> "absent", text |-> "", items |-> <<>>]
YamlNull == [kind |-> "null", text |-> "null", items |-> <<>>]
YamlStr(x) == [kind |-> "str", text |-> x, items |-> <<>>]
YamlSeq(l) == [kind |-> "seq", text |-> "", items |-> l]

\* yaml.safe_load of a scalar
load_scalar(doc) == IF doc.kind = "null" THEN PyNone ELSE S(doc.text)

\* yaml.safe_load(text)
safe_load(doc) ==
    IF doc.kind = "seq"
    THEN PyList([i \in 1..Len(doc.items) |-> load_scalar(doc.items[i])])
    ELSE load_scalar(doc)

SourceConfigs ==
    {YamlStr(x) : x \in SourceStrings}
    \cup {YamlSeq(l) : l \in SeqUpTo({YamlStr(x) : x \in SourceStrings}, MaxLen)}

KeyConfigs ==
    {YamlAbsent, YamlNull} \cup {YamlStr(x) : x \in KeyStrings}
    \cup {YamlSeq(l) :
            l \in SeqUpTo({YamlNull} \cup {YamlStr(x) : x \in KeyStrings}, MaxLen)}

\* isinstance(sources, basestring) and (keys is None or
\* isinstance(keys, basestring))
single_pair(srcs, ks) ==
    /\ isinstance_basestring(srcs)
    /\ (ks = PyNone \/ isinstance_basestring(ks))

\* not len(sources) == len(keys): the exception it raises, or whether the
\* lengths differ
lengths_differ(srcs, ks) ==
    IF ~has_len(srcs) \/ ~has_len(ks) THEN "TypeError"
    ELSE IF len(srcs) # len(ks) THEN "True"
    ELSE "False"

\* configure_sources up to the call of add_source or the for loop
configure_sources(upd, cfg) ==
    /\ Entered("configure_sources")
    /\ update' = upd
    /\ config' = cfg
    /\ LET srcs == safe_load(cfg.install_sources)
           ks == IF cfg.install_keys.kind # "absent"
                 THEN safe_load(cfg.install_keys) ELSE PyNone
       IN  /\ sources' = srcs
           /\ keys' = ks
           /\ IF single_pair(srcs, ks)
              THEN /\ pc' = "add_single"
                   /\ outcome' = NoOutcome
              ELSE IF lengths_differ(srcs, ks) = "TypeError"
              THEN /\ pc' = "done"
                   /\ outcome' = Raised("TypeError", NoMessage)
              ELSE IF lengths_differ(srcs, ks) = "True"
              THEN /\ pc' = "done"
                   /\ outcome' = Raised("SourceConfigError", Format(
                          "Install sources and keys lists are different lengths",
                          <<>>))
              ELSE /\ pc' = "sources_loop"
                   /\ outcome' = NoOutcome
    /\ src_num' = 0
    /\ add_source_calls' = <<>>
    /\ UNCHANGED <<apt_vars, system_vars, log_calls>>

\* a call of add_source from configure_sources: if it raises, so does
\* configure_sources, otherwise control goes to position next
calls_add_source(src, key, sys, next) ==
    LET e == add_source_body(src, key, sys)
    IN  /\ add_source_calls' =
               Append(add_source_calls, [source |-> src, key |-> key])
        /\ proc_calls' = proc_calls \o e.procs
        /\ file_writes' = file_writes \o Later(e.writes, Len(proc_calls))
        /\ log_calls' = log_calls \o e.logs
        /\ IF e.raised # None
           THEN /\ outcome' = Raised(e.raised, NoMessage)
                /\ pc' = "done"
           ELSE /\ pc' = next
                /\ UNCHANGED outcome

\* add_source(sources, keys)
configure_sources_single(sys) ==
    /\ pc = "add_single"
    /\ calls_add_source(sources, keys, sys, "update")
    /\ UNCHANGED <<op, config, sources, keys, update, src_num, apt_vars,
                   install_remote_vars, plugins_vars>>

\* one iteration of for src_num in range(len(sources))
configure_sources_iteration(sys) ==
    /\ pc = "sources_loop"
    /\ src_num < len(sources)
    /\ calls_add_source(getitem(sources, src_num), getitem(keys, src_num),
                        sys, "sources_loop")
    /\ src_num' = src_num + 1
    /\ UNCHANGED <<op, config, sources, keys, update, apt_vars,
                   install_remote_vars, plugins_vars>>

\* if update: apt_update(fatal=True), and the return
configure_sources_finish(status) ==
    /\ \/ pc = "update"
       \/ pc = "sources_loop" /\ src_num = len(sources)
    /\ Finished(IF update THEN apt_update_body(TRUE, status) ELSE NoEffect)
    /\ UNCHANGED <<op, sources_vars, apt_vars, install_remote_vars, plugins_vars>>

----------------------------------------------------------------------------

Init ==
    /\ pc = "idle"
    /\ op = "none"
    /\ outcome = NoOutcome
    /\ source = None
    /\ loaded = <<>>
    /\ handlers = <<>>
    /\ h_idx = 1
    /\ installed_to = None
    /\ can_handle_calls = <<>>
    /\ install_calls = <<>>
    /\ fetch_handlers = PyNone
    /\ sys_modules = {}
    /\ module_attrs = {}
    /\ plugin_list = <<>>
    /\ log_calls = <<>>
    /\ config = [install_sources |-> YamlAbsent, install_keys |-> YamlAbsent]
    /\ sources = PyNone
    /\ keys = PyNone
    /\ update = FALSE
    /\ src_num = 0
    /\ add_source_calls = <<>>
    /\ packages = PyNone
    /\ options = PyNone
    /\ fatal = FALSE
    /\ proc_calls = <<>>
    /\ file_writes = <<>>

\* The calls a charm can make, each with its arguments and with what the
\* system answers during the call
Call_install_remote ==
    /\ Callable
    /\ \E src \in Sources, hs \in SeqUpTo(Handlers, MaxHandlers) :
           install_remote(src, hs)

Call_plugins ==
    /\ Callable
    /\ \E arg \in {PyNone} \cup {PyList(l) : l \in SeqUpTo(HandlerNames, MaxNames)},
          env \in Environments :
           plugins(arg, env.modules, env.attrs)

Call_apt_install ==
    /\ Callable
    /\ \E pkgs \in PackageArguments, opts \in OptionArguments,
          is_fatal \in BOOLEAN, status \in ExitStatuses :
           apt_install(pkgs, opts, is_fatal, status)

Call_apt_update ==
    /\ Callable
    /\ \E is_fatal \in BOOLEAN, status \in ExitStatuses :
           apt_update(is_fatal, status)

Call_apt_purge ==
    /\ Callable
    /\ \E pkgs \in PackageArguments, is_fatal \in BOOLEAN,
          status \in ExitStatuses :
           apt_purge(pkgs, is_fatal, status)

Call_add_source ==
    /\ Callable
    /\ \E src \in SourceStrings, key \in {PyNone} \cup {S(k) : k \in KeyStrings},
          sys \in Systems :
           add_source(S(src), key, sys)

Call_configure_sources ==
    /\ Callable
    /\ \E upd \in BOOLEAN, srcs \in SourceConfigs, ks \in KeyConfigs :
           configure_sources(upd, [install_sources |-> srcs,
                                   install_keys |-> ks])

Step_configure_sources_single ==
    \E sys \in Systems : configure_sources_single(sys)

Step_configure_sources_iteration ==
    \E sys \in Systems : configure_sources_iteration(sys)

Step_configure_sources_finish ==
    \E status \in ExitStatuses : configure_sources_finish(status)

Next ==
    \/ Call_install_remote
    \/ install_remote_iteration
    \/ install_remote_finish
    \/ Call_plugins
    \/ Call_apt_install
    \/ Call_apt_update
    \/ Call_apt_purge
    \/ Call_add_source
    \/ Call_configure_sources
    \/ Step_configure_sources_single
    \/ Step_configure_sources_iteration
    \/ Step_configure_sources_finish

Spec == Init /\ [][Next]_vars

----------------------------------------------------------------------------
(* Properties of install_remote *)

InstallRemoteDone == op = "install_remote" /\ pc = "done"

\* loaded[i] accepts the source and its install returns a non-empty path
Succeeds(i) ==
    /\ loaded[i].can_handle = "True"
    /\ loaded[i].install.kind = "return"
    /\ loaded[i].install.value \in InstallPaths

RaisesUnhandled(i) ==
    loaded[i].install = [kind |-> "raise", value |-> "UnhandledSource"]

RaisesOther(i) ==
    /\ loaded[i].install.kind = "raise"
    /\ loaded[i].install.value # "UnhandledSource"

Accepting == {i \in 1..Len(loaded) : loaded[i].can_handle = "True"}

Succeeding == {i \in 1..Len(loaded) : Succeeds(i)}

FirstSucceeding == CHOOSE i \in Succeeding : \A j \in Succeeding : i <= j

\* C1: when no handler raises an error other than UnhandledSource,
\* install_remote returns the path of the first handler in list order whose
\* can_handle is True and whose install returns a non-empty path, whatever
\* the handlers after it return or raise.
C1_FirstSucceedingHandlerWins ==
    (/\ InstallRemoteDone
     /\ \A i \in Accepting : ~RaisesOther(i)
     /\ Succeeding # {})
    => outcome = Returned(loaded[FirstSucceeding].install.value)

\* C2: once some handler's install has returned a non-empty path, install is
\* never called on a handler later in the list during that dispatch.
C2_NoInstallAfterSuccess ==
    op = "install_remote" =>
        \A k \in 1..Len(install_calls) :
            \A j \in 1..(k - 1) : ~Succeeds(install_calls[j])

\* C3: an UnhandledSource raised by an eligible handler's install does not
\* escape at that point; install is then called on the next eligible handler,
\* and if that one returns a non-empty path install_remote returns it.
C3_UnhandledContinuesToNext ==
    InstallRemoteDone =>
        \A k \in 1..Len(install_calls) :
            RaisesUnhandled(install_calls[k]) =>
                /\ k = Len(install_calls) => h_idx > Len(handlers)
                /\ k < Len(handlers) =>
                    /\ Len(install_calls) > k
                    /\ install_calls[k + 1] = handlers[k + 1]
                    /\ Succeeds(handlers[k + 1]) =>
                           outcome = Returned(loaded[handlers[k + 1]].install.value)

\* C4: install_remote calls can_handle on every loaded handler, and install
\* only on handlers whose can_handle returned exactly True; a handler that
\* returned anything else, a truthy reason string included, is never installed.
C4_InstallOnlyWhereCanHandleIsTrue ==
    (op = "install_remote" /\ pc # "idle") =>
        /\ can_handle_calls = [i \in 1..Len(loaded) |-> i]
        /\ \A k \in 1..Len(install_calls) :
               loaded[install_calls[k]].can_handle = "True"

C4_Witness ==
    /\ InstallRemoteDone
    /\ Len(install_calls) >= 1
    /\ \E i \in 1..Len(loaded) :
           /\ loaded[i].can_handle = "'Wrong source type'"
           /\ i < install_calls[1]

\* C5: if no loaded handler's can_handle returns True, or every eligible
\* handler's install raises UnhandledSource, install_remote raises
\* UnhandledSource with a message naming the source, and returns no path.
C5_UnhandledWhenNoneInstall ==
    (/\ InstallRemoteDone
     /\ \/ Accepting = {}
        \/ \A i \in Accepting : RaisesUnhandled(i))
    => /\ outcome.kind = "raise"
       /\ outcome.exc = "UnhandledSource"
       /\ source \in Range(outcome.msg.args)
       /\ outcome.value = None

C5_Witness ==
    /\ InstallRemoteDone
    /\ Cardinality(Accepting) >= 2
    /\ \A i \in Accepting : RaisesUnhandled(i)
    /\ Len(install_calls) = Cardinality(Accepting)

\* C6: an error other than UnhandledSource raised by an eligible handler's
\* install leaves install_remote at once: no later install is called, no
\* path is returned and the error is not turned into UnhandledSource.
C6_OtherErrorPropagates ==
    op = "install_remote" =>
        \A k \in 1..Len(install_calls) :
            RaisesOther(install_calls[k]) =>
                /\ k = Len(install_calls)
                /\ pc = "done"
                /\ outcome.kind = "raise"
                /\ outcome.exc = loaded[install_calls[k]].install.value

C6_Witness ==
    /\ InstallRemoteDone
    /\ Len(install_calls) >= 1
    /\ RaisesOther(install_calls[Len(install_calls)])
    /\ Len(install_calls) < Len(handlers)
    /\ Succeeds(handlers[Len(install_calls) + 1])

----------------------------------------------------------------------------
(* Properties of plugins *)

PluginsDone == op = "plugins" /\ pc = "done"

Resolves(n) ==
    /\ rsplit(n).package \in sys_modules
    /\ <<rsplit(n).package, rsplit(n).classname>> \in module_attrs

NotResolves(n) == ~Resolves(n)

\* What plugins owes for the list of names l: it returns, with one instance
\* per name of l that resolves, in the order of l, the instances all distinct,
\* and one log message per name that does not resolve
LoadedFrom(l) ==
    /\ outcome.kind = "return"
    /\ Len(plugin_list) = Len(SelectSeq(l, Resolves))
    /\ \A k \in 1..Len(plugin_list) :
           plugin_list[k].class = SelectSeq(l, Resolves)[k]
    /\ \A j, k \in 1..Len(plugin_list) :
           plugin_list[j].id = plugin_list[k].id => j = k
    /\ Len(log_calls) = Len(SelectSeq(l, NotResolves))
    /\ \A k \in 1..Len(log_calls) :
           SelectSeq(l, NotResolves)[k] \in Range(log_calls[k].args)

\* C7 as stated: for every list passed to plugins (the default list being
\* used only when no list is passed), plugins returns exactly one fresh
\* instance per reference that resolves, in the order of the given list,
\* omits and logs once every reference that does not, and does not raise.
C7_AsStated ==
    PluginsDone =>
        IF fetch_handlers.type = "NoneType" THEN LoadedFrom(FETCH_HANDLERS)
        ELSE LoadedFrom(fetch_handlers.items)

\* C7: the same for every non-empty list passed; the default list is used
\* when no list or an empty list is passed.
C7_PluginsSkipsAndLogsMissing ==
    PluginsDone =>
        IF fetch_handlers.type = "NoneType" \/ fetch_handlers.items = <<>>
        THEN LoadedFrom(FETCH_HANDLERS)
        ELSE LoadedFrom(fetch_handlers.items)

C7_Witness ==
    /\ PluginsDone
    /\ fetch_handlers.type = "list"
    /\ Len(fetch_handlers.items) = 3
    /\ Len(plugin_list) = 1
    /\ Len(log_calls) = 2
    /\ \E j, k \in 1..3 :
           /\ rsplit(fetch_handlers.items[j]).package \notin sys_modules
           /\ rsplit(fetch_handlers.items[k]).package \in sys_modules
           /\ ~Resolves(fetch_handlers.items[k])

----------------------------------------------------------------------------
(* Properties of configure_sources and of the external processes *)

\* sources is a single string and keys is absent or a single string
SinglePairCase == sources.type = "str" /\ keys.type \in {"NoneType", "str"}

EqualLengthLists ==
    /\ sources.type = "list"
    /\ keys.type = "list"
    /\ Len(sources.items) = Len(keys.items)

UpdateRan ==
    \E k \in 1..Len(proc_calls) : proc_calls[k].cmd[2] = S("update")

\* C8: whenever the configured values are not the single-pair case and
\* sources and keys are not two lists of equal length, configure_sources
\* raises SourceConfigError, calls add_source zero times and does not refresh
\* the package index.
C8_MismatchRaisesSourceConfigError ==
    (op = "configure_sources" /\ ~SinglePairCase /\ ~EqualLengthLists) =>
        /\ pc = "done"
        /\ outcome.kind = "raise"
        /\ outcome.exc = "SourceConfigError"
        /\ add_source_calls = <<>>
        /\ ~UpdateRan

AptOperations == {"apt_install", "apt_purge", "apt_update"}

Tool(p) == p.cmd[1].str

\* the process p made the call fail
Failed(k) ==
    /\ k = Len(proc_calls)
    /\ pc = "done"
    /\ outcome.kind = "raise"
    /\ outcome.exc = "CalledProcessError"

\* C9 as stated: for every operation that spawns a process (apt_install,
\* apt_purge, apt_update, add_source's repository-add and key-import), a
\* non-zero exit becomes a raised error only when the caller passed
\* fatal=True; otherwise the status is ignored and the operation completes.
C9_AsStated ==
    pc = "done" =>
        \A k \in 1..Len(proc_calls) :
            proc_calls[k].status # 0 =>
                /\ op \in AptOperations =>
                       IF fatal THEN Failed(k) ELSE outcome = Returned(None)
                /\ (/\ op = "add_source"
                    /\ Tool(proc_calls[k]) \in {"add-apt-repository", "apt-key"})
                   => outcome = Returned(None)

\* C9: apt_install, apt_purge and apt_update raise on a non-zero exit only
\* when called with fatal=True and otherwise ignore it and return; add_source
\* has no fatal flag: a non-zero exit of its repository-add or key-import
\* process, or of the keyring install it makes with fatal=True, is always
\* raised, at once.
C9_NonZeroExitRaisesOnlyWhenChecked ==
    /\ op \in AptOperations /\ pc = "done" =>
        /\ Len(proc_calls) = 1
        /\ Tool(proc_calls[1]) = "apt-get"
        /\ IF fatal /\ proc_calls[1].status # 0
           THEN Failed(1)
           ELSE outcome = Returned(None)
    /\ op \in {"add_source", "configure_sources"} =>
        \A k \in 1..Len(proc_calls) :
            /\ proc_calls[k].checked
            /\ proc_calls[k].status # 0 => Failed(k)
    /\ pc = "done" /\ outcome.exc = "CalledProcessError" =>
        /\ proc_calls # <<>>
        /\ proc_calls[Len(proc_calls)].status # 0

C9_Witness ==
    /\ op = "add_source"
    /\ pc = "done"
    /\ Len(proc_calls) = 2
    /\ Tool(proc_calls[1]) = "add-apt-repository"
    /\ proc_calls[1].status = 0
    /\ Tool(proc_calls[2]) = "apt-key"
    /\ proc_calls[2].status # 0
    /\ outcome.exc = "CalledProcessError"

\* sources and keys both have a length and the two lengths are equal
EqualLengths ==
    /\ sources.type \in {"str", "list"}
    /\ keys.type \in {"str", "list"}
    /\ len(sources) = len(keys)

\* the k-th element of a configured value, k counted from 1
Element(v, k) == IF v.type = "str" THEN S(Chars(v.str)[k]) ELSE v.items[k]

PairedInOrder ==
    \A k \in 1..Len(add_source_calls) :
        add_source_calls[k] =
            [source |-> Element(sources, k), key |-> Element(keys, k)]

\* C10 as stated: outside the single-pair case, when sources and keys have
\* equal length n, configure_sources calls add_source exactly n times, the
\* i-th call with the whole i-th source and the key at the same position, in
\* increasing index order.
C10_AsStated ==
    (op = "configure_sources" /\ pc = "done" /\ ~SinglePairCase /\ EqualLengths)
    => /\ Len(add_source_calls) = len(sources)
       /\ PairedInOrder

\* C10: the same, exactly n times unless a call of add_source raises: that
\* error then leaves configure_sources and no later pair is registered.
C10_AddSourcePerPairInOrder ==
    (op = "configure_sources" /\ ~SinglePairCase /\ EqualLengths)
    => /\ Len(add_source_calls) <= len(sources)
       /\ PairedInOrder
       /\ pc = "sources_loop" => Len(add_source_calls) = src_num
       /\ (pc = "done" /\ Len(add_source_calls) < len(sources)) =>
              /\ Failed(Len(proc_calls))
              /\ ~UpdateRan
       /\ (pc = "done" /\ outcome.kind = "return") =>
              Len(add_source_calls) = len(sources)

C10_Witness ==
    /\ op = "configure_sources"
    /\ pc = "done"
    /\ outcome.kind = "return"
    /\ sources.type = "list"
    /\ keys = PyList(<<S("k1"), PyNone>>)
    /\ Len(add_source_calls) = 2
    /\ add_source_calls[1].source # add_source_calls[2].source
    /\ add_source_calls[1].key = S("k1")
    /\ add_source_calls[2].key = PyNone

----------------------------------------------------------------------------
(* Properties of add_source *)

AddSourceDone == op = "add_source" /\ pc = "done"

\* the arguments of the call
TheSource == add_source_calls[1].source
TheKey == add_source_calls[1].key

KeyImports == {k \in 1..Len(proc_calls) : Tool(proc_calls[k]) = "apt-key"}

\* the branch's action raised: a process it spawned exited non-zero
BranchRaised ==
    \E k \in 1..Len(proc_calls) :
        /\ Tool(proc_calls[k]) # "apt-key"
        /\ proc_calls[k].status # 0

\* the key-import tool ran exactly once, with the key, after everything the
\* branch did
KeyImportedOnceAfterBranch ==
    /\ KeyImports = {Len(proc_calls)}
    /\ proc_calls[Len(proc_calls)].cmd = <<S("apt-key"), S("import"), TheKey>>
    /\ \A w \in 1..Len(file_writes) : file_writes[w].after < Len(proc_calls)

\* C11 as stated: whichever branch of add_source runs, if a key was supplied
\* the key-import tool is invoked exactly once with that key, after the
\* branch's action has completed; if no key was supplied it is never invoked.
C11_AsStated ==
    AddSourceDone =>
        IF TheKey # PyNone THEN KeyImportedOnceAfterBranch
        ELSE KeyImports = {}

\* C11: the same whenever the branch's action completes; if it raises (its
\* repository-add or keyring-install process exits non-zero) add_source
\* raises at once and the key-import tool is never invoked.
C11_KeyImportedAfterBranch ==
    AddSourceDone =>
        IF TheKey # PyNone /\ ~BranchRaised THEN KeyImportedOnceAfterBranch
        ELSE /\ KeyImports = {}
             /\ BranchRaised => outcome.kind = "raise"

C11_Witness ==
    /\ AddSourceDone
    /\ TheSource = S("cloud:h")
    /\ TheKey = S("k1")
    /\ Len(proc_calls) = 2
    /\ Tool(proc_calls[1]) = "apt-get"
    /\ Len(file_writes) = 1
    /\ KeyImportedOnceAfterBranch
    /\ outcome = Returned(None)

\* the characters of s begin with those of prefix
BeginsWith(s, prefix) ==
    /\ Len(Chars(s.str)) >= Len(prefix)
    /\ SubSeq(Chars(s.str), 1, Len(prefix)) = prefix

IsPpa == BeginsWith(TheSource, <<"p", "p", "a", ":">>)
IsHttp == BeginsWith(TheSource, <<"h", "t", "t", "p", ":">>)
IsHttps == BeginsWith(TheSource, <<"h", "t", "t", "p", "s", ":">>)
IsCloud == BeginsWith(TheSource, <<"c", "l", "o", "u", "d", ":">>)
IsProposed == TheSource = S("proposed")

RepositoryAdds ==
    {k \in 1..Len(proc_calls) : Tool(proc_calls[k]) = "add-apt-repository"}

\* nothing was done for the source itself: no tool but the key import ran
\* and no file was written
SourceIgnored ==
    /\ \A k \in 1..Len(proc_calls) : Tool(proc_calls[k]) = "apt-key"
    /\ file_writes = <<>>

\* C12: add_source treats a source beginning with http: or with https: as a
\* repository line: it invokes the repository-add tool exactly once with the
\* raw source string and writes no repository-list file; only a source
\* matching none of ppa, http(s), cloud, proposed is silently ignored.
C12_HttpAndHttpsAreRepositoryLines ==
    AddSourceDone =>
        /\ (IsHttp \/ IsHttps) =>
               /\ RepositoryAdds = {1}
               /\ proc_calls[1].cmd =
                      <<S("add-apt-repository"), S("--yes"), TheSource>>
               /\ file_writes = <<>>
        /\ SourceIgnored =>
               ~(IsPpa \/ IsHttp \/ IsHttps \/ IsCloud \/ IsProposed)

====
